---- MODULE Spec2Model ----
(***************************************************************************)
(* The in-memory material store of the API de Materiais: the four route    *)
(* handlers over the process-wide array `materiais`, in the two variants   *)
(* of the create handler found in the repository:                          *)
(*   "aleatorio"  - src/Server.js: a random id in a bounded range,         *)
(*                  re-drawn while a stored record has it;                 *)
(*   "sequencial" - src/unnamed/part_000: id = materiais.length + 1.       *)
(* The list, update and delete handlers are identical in both files.       *)
(***************************************************************************)
EXTENDS Integers, Sequences, FiniteSets

VARIABLES
    variante,       \* which of the two server files runs
    materiais,      \* let materiais = []
    pc,             \* "idle", or "gerarId" inside the do-while of Server.js
    id,             \* the local `let id` of the create handler of Server.js
                    \* (0 before the first draw and once the handler returned)
    req,            \* the request being served / served last
    resp,           \* the response sent last
    idsAtribuidos,  \* history: ids returned by successful creates
    nCriados,       \* history: number of 201 responses to POST
    nExcluidos      \* history: number of 200 responses to DELETE

vars == <<variante, materiais, pc, id, req, resp, idsAtribuidos, nCriados, nExcluidos>>

----------------------------------------------------------------------------
(* Bounds *)

\* Size of the id range of gerarIdAleatorio (9000 in the code, ids 1000..9999).
IdSpan == 2

\* Number of successful creates explored in one run.
MaxCriados == 3

\* Lower end of the id range of gerarIdAleatorio.
IdMin == 1000

----------------------------------------------------------------------------
(* JavaScript values of the request bodies *)

Undefined == [t |-> "undefined"]
Null == [t |-> "null"]
Str(s) == [t |-> "string", s |-> s]
Num(n) == [t |-> "number", n |-> n]

\* !v of JavaScript
Falsy(v) ==
    CASE v.t = "undefined" -> TRUE
      [] v.t = "null" -> TRUE
      [] v.t = "string" -> Len(v.s) = 0
      [] v.t = "number" -> v.n = 0

Campos ==
    {"nomeProduto", "quantidadePorCaixa", "quantidadeUnitaria", "codigoBarras",
     "nomeFornecedor", "nomeRecebedor", "setorDestino", "valorUnitario", "valorTotal"}

WhiteSpace == {" ", "\t"}

RECURSIVE TrimStart(_)
TrimStart(s) ==
    IF s # <<>> /\ Head(s) \in WhiteSpace THEN TrimStart(Tail(s)) ELSE s

RECURSIVE TrimEnd(_)
TrimEnd(s) ==
    IF s # <<>> /\ s[Len(s)] \in WhiteSpace THEN TrimEnd(SubSeq(s, 1, Len(s) - 1)) ELSE s

\* String.prototype.trim on a string given as its sequence of characters
Trim(s) == TrimEnd(TrimStart(s))

DigitVal ==
    [c \in {"0", "1", "2", "3", "4", "5", "6", "7", "8", "9"} |->
        CASE c = "0" -> 0 [] c = "1" -> 1 [] c = "2" -> 2 [] c = "3" -> 3
          [] c = "4" -> 4 [] c = "5" -> 5 [] c = "6" -> 6 [] c = "7" -> 7
          [] c = "8" -> 8 [] c = "9" -> 9]

RECURSIVE DecimalValue(_)
DecimalValue(s) ==
    IF s = <<>> THEN 0
    ELSE 10 * DecimalValue(SubSeq(s, 1, Len(s) - 1)) + DigitVal[s[Len(s)]]

\* Number(s) / ToNumber(s) for a string: surrounding white space is dropped,
\* the empty string is 0, a run of decimal digits is its value, anything
\* else is NaN (nan = TRUE).
StringToNumber(s) ==
    LET t == Trim(s) IN
    IF \A i \in 1..Len(t) : t[i] \in DOMAIN DigitVal
        THEN [nan |-> FALSE, n |-> DecimalValue(t)]
        ELSE [nan |-> TRUE, n |-> 0]

\* item.id == id, a stored number against the string of the route parameter
LooseEq(itemId, idParam) ==
    LET k == StringToNumber(idParam) IN ~k.nan /\ k.n = itemId

----------------------------------------------------------------------------
(* Array helpers *)

\* materiais.findIndex((item) => item.id == id), 1-based; 0 stands for -1
FindIndex(ms, idParam) ==
    IF \E i \in 1..Len(ms) : LooseEq(ms[i].id, idParam)
        THEN CHOOSE i \in 1..Len(ms) :
                /\ LooseEq(ms[i].id, idParam)
                /\ \A j \in 1..(i - 1) : ~LooseEq(ms[j].id, idParam)
        ELSE 0

RECURSIVE FilterOut(_, _)
\* materiais.filter((item) => item.id != id)
FilterOut(ms, idParam) ==
    IF ms = <<>> THEN <<>>
    ELSE IF LooseEq(Head(ms).id, idParam)
        THEN FilterOut(Tail(ms), idParam)
        ELSE <<Head(ms)>> \o FilterOut(Tail(ms), idParam)

\* materiais.some((material) => material.codigoBarras === codigoNormalizado)
CodigoExistente(ms, codigo) ==
    \E i \in 1..Len(ms) : ms[i].codigoBarras = Str(codigo)

\* materiais.some((material) => material.id === id)
IdEmUso(ms, n) == \E i \in 1..Len(ms) : ms[i].id = n

\* { id, nomeProduto, ..., codigoBarras: codigoNormalizado, ... }
NovoMaterial(n, body) ==
    [f \in Campos \cup {"id"} |->
        IF f = "id" THEN n
        ELSE IF f = "codigoBarras" THEN Str(Trim(body.codigoBarras.s))
        ELSE body[f]]

\* { id: Number(id), nomeProduto, ..., valorTotal }
MaterialAtualizado(idParam, body) ==
    [f \in Campos \cup {"id"} |->
        IF f = "id" THEN StringToNumber(idParam).n ELSE body[f]]

----------------------------------------------------------------------------
(* The handlers as functions of the store and the request *)

SemDados == Undefined

Resposta(status, data, lista) == [status |-> status, data |-> data, lista |-> lista]

\* the check with its last operand, !valorTotal, left out
CampoFaltandoSemValorTotal(body) ==
    \E f \in Campos \ {"valorTotal"} : Falsy(body[f])

\* if (!nomeProduto || !quantidadePorCaixa || ... || !valorTotal)
CampoFaltando(body) == \E f \in Campos : Falsy(body[f])

\* The early returns of POST: 400, then the TypeError of .trim() on a value
\* that is no string (500 from the framework's error handler), then 409;
\* 0 when the request goes on to the id assignment.
PostStatus(ms, body) ==
    IF CampoFaltando(body) THEN 400
    ELSE IF body.codigoBarras.t # "string" THEN 500
    ELSE IF CodigoExistente(ms, Trim(body.codigoBarras.s)) THEN 409
    ELSE 0

\* an update that removes the matched record and pushes its replacement
PutHandlerNoFim(ms, idParam, body) ==
    LET index == FindIndex(ms, idParam) IN
    IF index = 0
        THEN [status |-> 404, data |-> SemDados, materiais |-> ms]
        ELSE LET novo == MaterialAtualizado(idParam, body) IN
             [status |-> 200, data |-> novo,
              materiais |-> Append(SubSeq(ms, 1, index - 1) \o SubSeq(ms, index + 1, Len(ms)), novo)]

\* PUT /api/materiais/:id  ->  [status, data, materiais]
PutHandler(ms, idParam, body) ==
    LET index == FindIndex(ms, idParam) IN
    IF index = 0
        THEN [status |-> 404, data |-> SemDados, materiais |-> ms]
        ELSE LET novo == MaterialAtualizado(idParam, body) IN
             [status |-> 200, data |-> novo,
              materiais |-> [ms EXCEPT ![index] = novo]]

\* a delete without the findIndex check: filter, then 200
DeleteHandlerSemBusca(ms, idParam) ==
    [status |-> 200, materiais |-> FilterOut(ms, idParam)]

\* DELETE /api/materiais/:id  ->  [status, materiais]
DeleteHandler(ms, idParam) ==
    LET index == FindIndex(ms, idParam) IN
    IF index = 0
        THEN [status |-> 404, materiais |-> ms]
        ELSE [status |-> 200, materiais |-> FilterOut(ms, idParam)]

\* Math.floor(Math.random() * 9000) + 1000, r the floored product
GerarIdAleatorio(r) == r + IdMin

----------------------------------------------------------------------------
(* Requests *)

Base ==
    [nomeProduto |-> Str(<<"W">>), quantidadePorCaixa |-> Num(10),
     quantidadeUnitaria |-> Num(1), codigoBarras |-> Str(<<"1">>),
     nomeFornecedor |-> Str(<<"A">>), nomeRecebedor |-> Str(<<"B">>),
     setorDestino |-> Str(<<"C">>), valorUnitario |-> Num(5), valorTotal |-> Num(50)]

SemCorpo == [f \in Campos |-> Undefined]

CamposNumericos ==
    {"quantidadePorCaixa", "quantidadeUnitaria", "valorUnitario", "valorTotal"}

Vazio(f) == IF f \in CamposNumericos THEN Num(0) ELSE Str(<<>>)

\* bodies with all nine fields truthy
CorposCompletos ==
    { [Base EXCEPT !.codigoBarras = b] :
        b \in {Str(<<"1">>), Str(<<" ", "1", " ">>), Str(<<"2">>), Num(7)} }

\* bodies with exactly one field missing (undefined), null, "" or 0
CorposIncompletos ==
    { [Base EXCEPT ![f] = v] : f \in Campos, v \in {Undefined, Null} }
    \cup { [Base EXCEPT ![f] = Vazio(f)] : f \in Campos }

CorposPost == CorposCompletos \cup CorposIncompletos

\* bodies of PUT: a new supplier with an untrimmed barcode, and another barcode
CorposPut ==
    { [Base EXCEPT !.codigoBarras = Str(<<" ", "1", " ">>), !.nomeFornecedor = Str(<<"Z">>)],
      [Base EXCEPT !.codigoBarras = Str(<<"2">>)] }

Digit == <<"0", "1", "2", "3", "4", "5", "6", "7", "8", "9">>

RECURSIVE NumToStr(_)
NumToStr(n) ==
    IF n < 10 THEN <<Digit[n + 1]>> ELSE NumToStr(n \div 10) \o <<Digit[(n % 10) + 1]>>

\* the ids either variant can assign within the bounds
IdsPossiveis(v) ==
    IF v = "aleatorio" THEN IdMin..(IdMin + IdSpan - 1) ELSE 1..MaxCriados

\* route parameters: the decimal form of an id, a padded form, and no number
IdParams(v) ==
    { NumToStr(n) : n \in IdsPossiveis(v) }
    \cup { <<" ">> \o NumToStr(IF v = "aleatorio" THEN IdMin ELSE 1) \o <<" ">>,
           <<"a", "b", "c">> }

Pedido(op, idParam, body) == [op |-> op, id |-> idParam, body |-> body]

----------------------------------------------------------------------------
(* The state machine *)

Init ==
    /\ variante \in {"aleatorio", "sequencial"}
    /\ materiais = <<>>
    /\ pc = "idle"
    /\ id = 0
    /\ req = Pedido("NONE", <<>>, SemCorpo)
    /\ resp = Resposta(0, SemDados, <<>>)
    /\ idsAtribuidos = {}
    /\ nCriados = 0
    /\ nExcluidos = 0

\* POST answered by one of the early returns
PostErro ==
    /\ pc = "idle"
    /\ \E body \in CorposPost :
        /\ PostStatus(materiais, body) # 0
        /\ req' = Pedido("POST", <<>>, body)
        /\ resp' = Resposta(PostStatus(materiais, body), SemDados, <<>>)
    /\ UNCHANGED <<variante, materiais, pc, id, idsAtribuidos, nCriados, nExcluidos>>

\* POST of unnamed/part_000: id = materiais.length + 1
PostSequencial ==
    /\ pc = "idle"
    /\ variante = "sequencial"
    /\ nCriados < MaxCriados
    /\ \E body \in CorposPost :
        /\ PostStatus(materiais, body) = 0
        /\ LET novoMaterial == NovoMaterial(Len(materiais) + 1, body) IN
            /\ materiais' = Append(materiais, novoMaterial)
            /\ req' = Pedido("POST", <<>>, body)
            /\ resp' = Resposta(201, novoMaterial, <<>>)
            /\ idsAtribuidos' = idsAtribuidos \cup {novoMaterial.id}
    /\ nCriados' = nCriados + 1
    /\ UNCHANGED <<variante, pc, id, nExcluidos>>

\* POST of Server.js up to the do-while: `let id;`
PostAleatorio ==
    /\ pc = "idle"
    /\ variante = "aleatorio"
    /\ nCriados < MaxCriados
    /\ \E body \in CorposPost :
        /\ PostStatus(materiais, body) = 0
        /\ req' = Pedido("POST", <<>>, body)
    /\ pc' = "gerarId"
    /\ id' = 0
    /\ resp' = Resposta(0, SemDados, <<>>)
    /\ UNCHANGED <<variante, materiais, idsAtribuidos, nCriados, nExcluidos>>

\* one turn of the do-while whose draw is the id of a stored record
SortearIdColisao ==
    /\ pc = "gerarId"
    /\ \E r \in 0..(IdSpan - 1) :
        /\ IdEmUso(materiais, GerarIdAleatorio(r))
        /\ id' = GerarIdAleatorio(r)
    /\ UNCHANGED <<variante, materiais, pc, req, resp, idsAtribuidos, nCriados, nExcluidos>>

\* the last turn of the do-while, and the rest of the handler; the drawn id
\* is the id of novoMaterial and the local goes away with the handler
SortearIdLivre ==
    /\ pc = "gerarId"
    /\ \E r \in 0..(IdSpan - 1) :
        /\ ~IdEmUso(materiais, GerarIdAleatorio(r))
        /\ LET novoMaterial == NovoMaterial(GerarIdAleatorio(r), req.body) IN
            /\ materiais' = Append(materiais, novoMaterial)
            /\ resp' = Resposta(201, novoMaterial, <<>>)
            /\ idsAtribuidos' = idsAtribuidos \cup {novoMaterial.id}
    /\ pc' = "idle"
    /\ id' = 0
    /\ nCriados' = nCriados + 1
    /\ UNCHANGED <<variante, req, nExcluidos>>

\* GET /api/materiais
Get ==
    /\ pc = "idle"
    /\ req' = Pedido("GET", <<>>, SemCorpo)
    /\ resp' = Resposta(200, SemDados, materiais)
    /\ UNCHANGED <<variante, materiais, pc, id, idsAtribuidos, nCriados, nExcluidos>>

\* PUT /api/materiais/:id
Put ==
    /\ pc = "idle"
    /\ \E idParam \in IdParams(variante), body \in CorposPut :
        LET r == PutHandler(materiais, idParam, body) IN
        /\ req' = Pedido("PUT", idParam, body)
        /\ resp' = Resposta(r.status, r.data, <<>>)
        /\ materiais' = r.materiais
    /\ UNCHANGED <<variante, pc, id, idsAtribuidos, nCriados, nExcluidos>>

\* DELETE /api/materiais/:id
Delete ==
    /\ pc = "idle"
    /\ \E idParam \in IdParams(variante) :
        LET r == DeleteHandler(materiais, idParam) IN
        /\ req' = Pedido("DELETE", idParam, SemCorpo)
        /\ resp' = Resposta(r.status, SemDados, <<>>)
        /\ materiais' = r.materiais
        /\ nExcluidos' = IF r.status = 200 THEN nExcluidos + 1 ELSE nExcluidos
    /\ UNCHANGED <<variante, pc, id, idsAtribuidos, nCriados>>

Next ==
    \/ PostErro
    \/ PostSequencial
    \/ PostAleatorio
    \/ SortearIdColisao
    \/ SortearIdLivre
    \/ Get
    \/ Put
    \/ Delete

Spec == Init /\ [][Next]_vars

\* The draws of Math.random() are fair: a value that would end the loop is
\* not avoided forever, and the single thread keeps running the handler.
FairSpec == Spec /\ WF_vars(Next) /\ SF_vars(SortearIdLivre)

----------------------------------------------------------------------------
(* Vocabulary of the properties *)

\* a step that serves a request: the handlers run only from "idle", and
\* req' is then the request they serve
Atende(op) == pc = "idle" /\ req'.op = op

\* a field that is missing, null, the empty string or zero
Ausente(v) == v \in {Undefined, Null, Str(<<>>), Num(0)}

\* the sequence ms without its k-th element
RemoveAt(ms, k) == SubSeq(ms, 1, k - 1) \o SubSeq(ms, k + 1, Len(ms))

\* the positions of the records the route parameter matches
Casam(ms, idParam) == { k \in 1..Len(ms) : LooseEq(ms[k].id, idParam) }

----------------------------------------------------------------------------
(* Properties *)

\* C1: no two records of the collection have the same id, in either variant.
C1_IdsUnicos ==
    \A i, j \in 1..Len(materiais) : i # j => materiais[i].id # materiais[j].id

\* C2: every stored codigoBarras is a string equal to its trimmed form, and no
\* two stored records have the same codigoBarras.
C2_CodigosTrimadosUnicos ==
    /\ \A i \in 1..Len(materiais) :
        /\ materiais[i].codigoBarras.t = "string"
        /\ Trim(materiais[i].codigoBarras.s) = materiais[i].codigoBarras.s
    /\ \A i, j \in 1..Len(materiais) :
        i # j => materiais[i].codigoBarras # materiais[j].codigoBarras

\* C3: the id a successful create returns was returned by no earlier
\* successful create of the run, deleted since or not.
C3_IdNuncaRepetido ==
    [][nCriados' = nCriados + 1 => resp'.data.id \notin idsAtribuidos]_vars

\* C4: the collection, and the list a GET returns, hold exactly
\* nCriados - nExcluidos records.
C4_ContagemLista ==
    /\ Len(materiais) = nCriados - nExcluidos
    /\ (req.op = "GET" => Len(resp.lista) = nCriados - nExcluidos)

\* C5: a create with all nine fields present whose trimmed barcode is the
\* trimmed barcode of a stored record is answered 409 and changes nothing.
C5_CodigoDuplicadoConflito ==
    [][(/\ Atende("POST")
        /\ \A f \in Campos : ~Ausente(req'.body[f])
        /\ req'.body.codigoBarras.t = "string"
        /\ \E i \in 1..Len(materiais) :
            /\ materiais[i].codigoBarras.t = "string"
            /\ Trim(materiais[i].codigoBarras.s) = Trim(req'.body.codigoBarras.s))
       => (resp'.status = 409 /\ materiais' = materiais)]_vars

\* C6: a create in which one of the nine fields is missing or falsy is
\* answered 400, whichever the field and whatever the store holds (a record
\* with the same barcode included), and changes nothing.
C6_CampoAusenteValidacao ==
    [][(Atende("POST") /\ \E f \in Campos : Ausente(req'.body[f]))
       => (resp'.status = 400 /\ materiais' = materiais)]_vars

\* a 400 for a body whose valorTotal is 0 while a stored record has its barcode
C6_Witness ==
    /\ req.op = "POST"
    /\ resp.status = 400
    /\ req.body.valorTotal = Num(0)
    /\ \E i \in 1..Len(materiais) : materiais[i].codigoBarras = req.body.codigoBarras

\* C7: an update or a delete whose id matches no stored record is answered
\* 404 and leaves the collection as it was.
C7_NaoEncontrado ==
    [][((Atende("PUT") \/ Atende("DELETE")) /\ Casam(materiais, req'.id) = {})
       => (resp'.status = 404 /\ materiais' = materiais)]_vars

\* a 404 for the delete of an id that a create assigned and a delete removed,
\* with another record still stored
C7_Witness ==
    /\ req.op = "DELETE"
    /\ resp.status = 404
    /\ ~StringToNumber(req.id).nan
    /\ StringToNumber(req.id).n \in idsAtribuidos
    /\ nExcluidos >= 1
    /\ Len(materiais) >= 1

\* C8: a successful delete removes one record, which the id matches, and
\* leaves every other record in place and in order.
C8_DeleteRemoveSoUm ==
    [][(Atende("DELETE") /\ resp'.status = 200)
       => \E k \in Casam(materiais, req'.id) : materiais' = RemoveAt(materiais, k)]_vars

\* C9: a successful update replaces one matched record in place: same length,
\* same id at that position, the nine fields of the body, every other
\* position unchanged, and the record is the one returned; a list returns the
\* collection as it stands.
C9_UpdateNoLugar ==
    [][/\ (Atende("PUT") /\ resp'.status = 200)
            => \E k \in Casam(materiais, req'.id) :
                /\ Len(materiais') = Len(materiais)
                /\ materiais'[k].id = materiais[k].id
                /\ \A f \in Campos : materiais'[k][f] = req'.body[f]
                /\ \A j \in 1..Len(materiais) : j # k => materiais'[j] = materiais[j]
                /\ resp'.data = materiais'[k]
       /\ (Atende("GET") => resp'.lista = materiais)]_vars

\* an update through a padded id string that changed the supplier of one of
\* two stored records
C9_Witness ==
    /\ req.op = "PUT"
    /\ resp.status = 200
    /\ Len(materiais) = 2
    /\ req.id # NumToStr(resp.data.id)
    /\ resp.data.nomeFornecedor = Str(<<"Z">>)
    /\ \E k \in 1..2 : materiais[k] = resp.data /\ materiais[3 - k].nomeFornecedor = Str(<<"A">>)

\* C10: a create that reaches the id loop is answered in the end.
C10_CriacaoTermina == (pc = "gerarId") ~> (pc = "idle")

====
